---- MODULE Spec2Model ----
(***************************************************************************)
(* One run of the youtube-uploader command line tool                       *)
(* (src/youtube_uploader/main.py): main() parses the arguments, checks the *)
(* client secret file, calls get_authenticated_service() and then          *)
(* upload_video().  The Google client libraries are the environment: the   *)
(* outcome of each library call (refresh, run_local_server, fetch_token,   *)
(* next_chunk) is chosen nondeterministically where the call is made.      *)
(***************************************************************************)
EXTENDS Integers, Sequences, FiniteSets, TLC

\* ---------------------------------------------------------------- bounds
\* Largest number of next_chunk calls the environment lets one upload take.
MaxChunks == 3
\* status.progress() is resumable_progress / total_size.  ProgressDenom is
\* the total size of the video and ProgressStep the size of one chunk: the
\* progress a next_chunk call reports is a whole number of chunks, or the
\* whole file.
ProgressDenom == 200
ProgressStep == 29

\* ------------------------------------------------------------ credentials
\* Python None for the local variable `credentials`.
None ==
  [token |-> "None", valid |-> FALSE, expired |-> FALSE, refresh_token |-> "None"]

IsNone(c) == c.token = "None"

\* Truthiness of a refresh token: None and the empty string are falsy.
TruthyTokenNotNone(rt) == rt # "None"

TruthyToken(rt) == rt \notin {"None", ""}

RefreshTokens == {"None", "", "rt"}

\* Every credential object the token store may hold.  The object is a
\* google.oauth2 Credentials, whose valid is "has a token and is not
\* expired": valid and expired are never both true.
CachedCredentials ==
  { c \in [token : {"cached"}, valid : BOOLEAN, expired : BOOLEAN,
            refresh_token : RefreshTokens] : ~(c.valid /\ c.expired) }

\* ---------------------------------------------------------- token store
\* pickle.dump (default protocol): the protocol header, then one frame
\* holding the credential's fields.
PickleDumpStale(c) ==
  << "proto", c.token, "0", (IF c.expired THEN "1" ELSE "0"),
     c.refresh_token >>

PickleDump(c) ==
  << "proto", c.token, (IF c.valid THEN "1" ELSE "0"),
     (IF c.expired THEN "1" ELSE "0"), c.refresh_token >>

\* pickle.load succeeds only on a complete pickle.
CanUnpickle(data) ==
  /\ Len(data) = 5
  /\ data[1] = "proto"
  /\ data[3] \in {"0", "1"}
  /\ data[4] \in {"0", "1"}

PickleLoad(data) ==
  [token |-> data[2], valid |-> (data[3] = "1"),
   expired |-> (data[4] = "1"), refresh_token |-> data[5]]

\* What pickle.load raises on data that is not a complete pickle.  It
\* depends on where the data ends: EOFError ("Ran out of input") when the
\* next opcode is missing, which is the case of an empty file and of a file
\* cut right after the protocol header; pickle.UnpicklingError ("pickle
\* data was truncated") when the data ends inside the frame.
UnpickleError(data) == IF Len(data) <= 1 THEN "EOFError" ELSE "UnpicklingError"

UnpickleErrors == {"EOFError", "UnpicklingError"}

\* Contents of a token store that is not a complete pickle: an empty file,
\* a pickle cut right after its header and a pickle cut inside its frame.
CorruptData == { << >>, << "proto" >>, << "proto", "cached", "1" >> }

NoFile == [exists |-> FALSE, data |-> << >>]

TokenStores ==
  {NoFile}
    \cup { [exists |-> TRUE, data |-> PickleDump(c)] : c \in CachedCredentials }
    \cup { [exists |-> TRUE, data |-> d] : d \in CorruptData }

\* ------------------------------------------------- decisions of the code
\* main.py line 42: `not credentials or not credentials.valid`.
NeedsCredentialsNoneOnly(c) == IsNone(c)

NeedsCredentialsOrNoRefreshToken(c) ==
  IsNone(c) \/ ~c.valid \/ ~TruthyToken(c.refresh_token)

NeedsCredentials(c) == IsNone(c) \/ ~c.valid

\* main.py line 43:
\* `credentials and credentials.expired and credentials.refresh_token`.
CanRefreshNotExpired(c) ==
  ~IsNone(c) /\ ~c.expired /\ TruthyToken(c.refresh_token)

CanRefreshTokenOnly(c) == ~IsNone(c) /\ TruthyToken(c.refresh_token)

CanRefresh(c) == ~IsNone(c) /\ c.expired /\ TruthyToken(c.refresh_token)

\* What a successful credentials.refresh(Request()) leaves in the object.
Refreshed(c) ==
  [token |-> "refreshed", valid |-> TRUE, expired |-> FALSE,
   refresh_token |-> c.refresh_token]

\* What a successful interactive authorization returns.
Issued(mode) ==
  [token |-> mode, valid |-> TRUE, expired |-> FALSE, refresh_token |-> "rt_new"]

\* ------------------------------------------------------------ upload
NoStatus == -1

\* main.py line 102: `if status:` (a MediaUploadProgress object is truthy).
StatusTruthyNonZero(status) == status # NoStatus /\ status # 0

StatusTruthy(status) == status # NoStatus

\* The percentages k in 0..100 for which the double nearest to k/100, times
\* 100 in double precision, is the double just below k (0.29 * 100 is
\* 28.999999999999996): the product is k or above for every other k.
ShortPercents == {29, 57, 58}

\* main.py line 104: the double status.progress() * 100, progress being
\* the double n / ProgressDenom.  The double is given by the exact value
\* num / den it approximates and by `short`: when 100 * n / ProgressDenom
\* is not a whole number the double has the same integer part as the exact
\* value; when it is a whole number k the double is k or slightly more, or,
\* for the k in ShortPercents (short), the double just below k.
ProgressTimes100(n) ==
  [num |-> n * 100, den |-> ProgressDenom,
   short |-> /\ (n * 100) % ProgressDenom = 0
             /\ (n * 100) \div ProgressDenom \in ShortPercents]

\* A percentage rounded to the nearest whole number.
PercentRounded(n) ==
  LET x == ProgressTimes100(n)
  IN  (2 * x.num + x.den) \div (2 * x.den)

\* main.py line 104: int(status.progress() * 100); int() truncates the
\* double.
Percent(n) ==
  LET x == ProgressTimes100(n)
  IN  IF x.short THEN x.num \div x.den - 1 ELSE x.num \div x.den

\* str(error) of a ResumableUploadError, as the set of reason words in it.
ErrorTexts ==
  { {}, {"youtubeSignupRequired"}, {"quotaExceeded"},
    {"youtubeSignupRequired", "quotaExceeded"} }

\* What one next_chunk call can do: return (status, None), return
\* (None, response), raise ResumableUploadError, raise anything else.
ProgressValues ==
  { n \in 0..ProgressDenom : n % ProgressStep = 0 \/ n = ProgressDenom }

Progressing ==
  [status : ProgressValues, response : {"None"}, raises : {"None"},
   text : {{}}]

Finishing ==
  [status : {NoStatus}, response : {"video"}, raises : {"None"}, text : {{}}]
    \cup [status : {NoStatus}, response : {"None"},
          raises : {"ResumableUploadError"}, text : ErrorTexts]
    \cup [status : {NoStatus}, response : {"None"}, raises : {"HttpError"},
          text : {{}}]

Line(kind, percent) == [kind |-> kind, percent |-> percent]

\* ------------------------------------------------------------- state
VARIABLES
  argv,            \* command line: shape and --device-auth
  secretFile,      \* client secret file: "missing", "unreadable", "ok"
  metadataFile,    \* metadata file: "missing", "badjson", "ok"
  videoFile,       \* video file: "missing", "ok"
  stdin,           \* standard input: "tty", "pipe", "closed"
  stdout,          \* standard output: "tty", "pipe"
  tokenStore,      \* token.pickle: [exists, data]
  pc,              \* position of the run in main.py
  credentials,     \* local variable of get_authenticated_service
  loaded,          \* what pickle.load returned (None if it was not called)
  acquired,        \* how `credentials` was obtained
  youtube,         \* credential the built client is bound to (None: no client)
  calls,           \* number of calls made to each collaborator
  chunks,          \* results next_chunk has returned so far
  response,        \* local variable of upload_video
  error,           \* text of the caught ResumableUploadError
  out,             \* lines written to standard output
  raised,          \* exception that left main() uncaught ("None": none)
  sys_exit,        \* code of the SystemExit raised (-1: none)
  race             \* two invocations sharing one token store (SpecRace)

vars ==
  << argv, secretFile, metadataFile, videoFile, stdin, stdout, tokenStore,
     pc, credentials, loaded, acquired, youtube, calls, chunks, response, error, out, raised,
     sys_exit, race >>

\* What no step of a single run changes: its command line and files, and
\* the state of the two concurrent invocations.
inputs ==
  << argv, secretFile, metadataFile, videoFile, stdin, stdout, race >>

\* The state of the single run, which no step of the two concurrent
\* invocations changes.
single ==
  << argv, secretFile, metadataFile, videoFile, stdin, stdout, tokenStore,
     pc, credentials, loaded, acquired, youtube, calls, chunks, response, error, out, raised,
     sys_exit >>

NoExit == -1

NoCalls ==
  [pickle_load |-> 0, open_wb |-> 0, pickle_dump |-> 0, refresh |-> 0,
   authorizing |-> 0, from_client_secrets_file |-> 0, run_local_server |-> 0,
   input |-> 0, fetch_token |-> 0, build |-> 0, get_authenticated_service |-> 0,
   upload_video |-> 0, videos |-> 0, insert |-> 0, next_chunk |-> 0]

Called(c, name) == [c EXCEPT ![name] = @ + 1]

\* --------------------------------------- two concurrent invocations
\* Two processes run get_authenticated_service on the same token_file.
Procs == {1, 2}

\* Both invocations are at the top of get_authenticated_service (line 33)
\* and the token store holds `store`.
RaceStart(store) ==
  [store |-> store,
   store0 |-> store,
   pc |-> [p \in Procs |-> "load"],
   credentials |-> [p \in Procs |-> None],
   loaded |-> [p \in Procs |-> None],
   raised |-> [p \in Procs |-> "None"],
   wrote |-> << >>]

\* The authorization server gives each invocation a token of its own.
OwnToken(p, c) == [c EXCEPT !.token = IF p = 1 THEN "token_1" ELSE "token_2"]

\* Shapes of the command line: --help given; --video-file or
\* --metadata-file left out; --client-secret left out; all three given.
ArgvShapes == {"help", "missing", "no_client_secret", "ok"}

Init ==
  /\ argv \in [shape : ArgvShapes, device_auth : BOOLEAN]
  /\ secretFile \in {"missing", "unreadable", "ok"}
  /\ metadataFile \in {"missing", "badjson", "ok"}
  /\ videoFile \in {"missing", "ok"}
  /\ stdin \in {"tty", "pipe", "closed"}
  /\ stdout \in {"tty", "pipe"}
  /\ tokenStore \in TokenStores
  /\ pc = "main"
  /\ credentials = None
  /\ loaded = None
  /\ acquired = "none"
  /\ youtube = None
  /\ calls = NoCalls
  /\ chunks = << >>
  /\ response = "None"
  /\ error = {}
  /\ out = << >>
  /\ raised = "None"
  /\ sys_exit = NoExit
  /\ race = RaceStart(NoFile)

\* An exception leaves main() uncaught.
Raise(exc) ==
  /\ pc' = "done"
  /\ raised' = exc
  /\ sys_exit' = sys_exit

\* sys.exit(code) / argparse exit.
Exit(code) ==
  /\ pc' = "done"
  /\ sys_exit' = code
  /\ raised' = raised

Goto(label) ==
  /\ pc' = label
  /\ UNCHANGED << raised, sys_exit >>

\* main.py lines 173-174: exit status of the process once main() is over:
\* the SystemExit code, 1 for an uncaught exception, 0 for a plain return.
ExitStatus ==
  IF sys_exit # NoExit THEN sys_exit
  ELSE IF raised # "None" THEN 1
  ELSE 0

\* ------------------------------------------------------------- main()
\* A parser that declares no argument as required.
ParseArgsNothingRequired ==
  /\ pc = "main"
  /\ CASE argv.shape = "help" ->
              /\ out' = Append(out, Line("usage", 0))
              /\ Exit(0)
       [] OTHER ->
              /\ out' = out
              /\ Goto("check_secret")
  /\ UNCHANGED << inputs, tokenStore, credentials, loaded, acquired, youtube,
                  calls, chunks, response, error >>

\* main.py lines 137-158: parser.parse_args().  --help prints the usage
\* text on standard output and exits 0; a missing required argument prints
\* its message on standard error and exits 2.
ParseArgs ==
  /\ pc = "main"
  /\ CASE argv.shape = "help" ->
              /\ out' = Append(out, Line("usage", 0))
              /\ Exit(0)
       [] argv.shape \in {"missing", "no_client_secret"} ->
              /\ out' = out
              /\ Exit(2)
       [] OTHER ->
              /\ out' = out
              /\ Goto("check_secret")
  /\ UNCHANGED << inputs, tokenStore, credentials, loaded, acquired, youtube,
                  calls, chunks, response, error >>

\* A main that does not look for the client secret file.
CheckSecretSkipped ==
  /\ pc = "check_secret"
  /\ Goto("load")
  /\ calls' = Called(calls, "get_authenticated_service")
  /\ UNCHANGED << inputs, tokenStore, credentials, loaded, acquired, youtube,
                  chunks, response, error, out >>

\* A main that goes on to upload_video without authenticating.
CheckSecretSkipAuth ==
  /\ pc = "check_secret"
  /\ IF secretFile = "missing"
       THEN /\ Raise("FileNotFoundError")
            /\ calls' = calls
       ELSE /\ Goto("upload_load")
            /\ calls' = Called(calls, "upload_video")
  /\ UNCHANGED << inputs, tokenStore, credentials, loaded, acquired, youtube,
                  chunks, response, error, out >>

\* main.py lines 161-167: the client secret must exist, then authenticate.
CheckSecret ==
  /\ pc = "check_secret"
  /\ IF secretFile = "missing"
       THEN /\ Raise("FileNotFoundError")
            /\ calls' = calls
       ELSE /\ Goto("load")
            /\ calls' = Called(calls, "get_authenticated_service")
  /\ UNCHANGED << inputs, tokenStore, credentials, loaded, acquired, youtube,
                  chunks, response, error, out >>

\* ------------------------------------------- get_authenticated_service()
\* main.py lines 33-39: load the cached credentials if the file exists.
\* Nothing catches what pickle.load raises.
LoadToken ==
  /\ pc = "load"
  /\ IF tokenStore.exists
       THEN /\ calls' = Called(calls, "pickle_load")
            /\ IF CanUnpickle(tokenStore.data)
                 THEN /\ credentials' = PickleLoad(tokenStore.data)
                      /\ loaded' = PickleLoad(tokenStore.data)
                      /\ Goto("check")
                 ELSE /\ Raise(UnpickleError(tokenStore.data))
                      /\ UNCHANGED << credentials, loaded >>
       ELSE /\ Goto("check")
            /\ UNCHANGED << calls, credentials, loaded >>
  /\ UNCHANGED << inputs, tokenStore, acquired, youtube, chunks, response,
                  error, out >>

\* A check whose save step is not nested under the `if`: a valid cached
\* credential is written back too.
CheckCredentialsAlwaysSave ==
  /\ pc = "check"
  /\ IF NeedsCredentials(credentials)
       THEN IF CanRefresh(credentials)
              THEN /\ Goto("refresh")
                   /\ UNCHANGED << calls, acquired >>
              ELSE /\ calls' = Called(calls, "authorizing")
                   /\ Goto(IF argv.device_auth THEN "manual" ELSE "local")
                   /\ acquired' = acquired
       ELSE /\ Goto("open_wb")
            /\ acquired' = "cached"
            /\ calls' = calls
  /\ UNCHANGED << inputs, tokenStore, credentials, loaded, youtube, chunks,
                  response, error, out >>

\* A check that ignores use_device_flow and always takes the browser flow.
CheckCredentialsIgnoreFlag ==
  /\ pc = "check"
  /\ IF NeedsCredentials(credentials)
       THEN IF CanRefresh(credentials)
              THEN /\ Goto("refresh")
                   /\ UNCHANGED << calls, acquired >>
              ELSE /\ calls' = Called(calls, "authorizing")
                   /\ Goto("local")
                   /\ acquired' = acquired
       ELSE /\ Goto("build")
            /\ acquired' = "cached"
            /\ calls' = calls
  /\ UNCHANGED << inputs, tokenStore, credentials, loaded, youtube, chunks,
                  response, error, out >>

\* main.py lines 42-48: use as is, refresh, or authorize interactively in
\* the mode the flag selects.
CheckCredentials ==
  /\ pc = "check"
  /\ IF NeedsCredentials(credentials)
       THEN IF CanRefresh(credentials)
              THEN /\ Goto("refresh")
                   /\ UNCHANGED << calls, acquired >>
              ELSE /\ calls' = Called(calls, "authorizing")
                   /\ Goto(IF argv.device_auth THEN "manual" ELSE "local")
                   /\ acquired' = acquired
       ELSE /\ Goto("build")
            /\ acquired' = "cached"
            /\ calls' = calls
  /\ UNCHANGED << inputs, tokenStore, credentials, loaded, youtube, chunks,
                  response, error, out >>

\* A refresh whose failure is swallowed.
RefreshSwallowed ==
  /\ pc = "refresh"
  /\ calls' = Called(calls, "refresh")
  /\ \E ok \in BOOLEAN :
       IF ok
         THEN /\ credentials' = Refreshed(credentials)
              /\ acquired' = "refresh"
              /\ Goto("open_wb")
         ELSE /\ Goto("open_wb")
              /\ acquired' = "refresh"
              /\ credentials' = credentials
  /\ UNCHANGED << inputs, tokenStore, loaded, youtube, chunks, response,
                  error, out >>

\* A refresh whose failure falls back to interactive authorization.
RefreshWithFallback ==
  /\ pc = "refresh"
  /\ calls' = Called(calls, "refresh")
  /\ \E ok \in BOOLEAN :
       IF ok
         THEN /\ credentials' = Refreshed(credentials)
              /\ acquired' = "refresh"
              /\ Goto("open_wb")
         ELSE /\ Goto(IF argv.device_auth THEN "manual" ELSE "local")
              /\ UNCHANGED << credentials, acquired >>
  /\ UNCHANGED << inputs, tokenStore, loaded, youtube, chunks, response,
                  error, out >>

\* main.py line 45: credentials.refresh(Request()); it refreshes the object
\* in place or raises, and nothing here catches what it raises.
Refresh ==
  /\ pc = "refresh"
  /\ calls' = Called(calls, "refresh")
  /\ \E ok \in BOOLEAN :
       IF ok
         THEN /\ credentials' = Refreshed(credentials)
              /\ acquired' = "refresh"
              /\ Goto("open_wb")
         ELSE /\ Raise("RefreshError")
              /\ UNCHANGED << credentials, acquired >>
  /\ UNCHANGED << inputs, tokenStore, loaded, youtube, chunks, response,
                  error, out >>

\* main.py lines 51-57: manual flow, up to the call of input().  The flow
\* is made from the client secret file and the URL is printed.
AuthorizeManual ==
  /\ pc = "manual"
  /\ calls' = Called(calls, "from_client_secrets_file")
  /\ IF secretFile # "ok"
       THEN /\ Raise("IOError")
            /\ out' = out
       ELSE /\ out' = out \o << Line("visit_url", 0), Line("auth_url", 0),
                                Line("enter_code", 0) >>
            /\ Goto("input")
  /\ UNCHANGED << inputs, tokenStore, credentials, loaded, acquired, youtube,
                  chunks, response, error >>

\* main.py line 58, input() is called.  With standard input closed it
\* raises RuntimeError before anything is written.  Otherwise it writes its
\* prompt, on standard error when standard input and standard output are
\* both terminals and on standard output when they are not, and waits for a
\* line.
InputPrompt ==
  /\ pc = "input"
  /\ calls' = Called(calls, "input")
  /\ CASE stdin = "closed" ->
              /\ Raise("RuntimeError")
              /\ out' = out
         [] stdin = "tty" /\ stdout = "tty" ->
              /\ Goto("input_wait")
              /\ out' = out
         [] OTHER ->
              /\ Goto("input_wait")
              /\ out' = Append(out, Line("prompt", 0))
  /\ UNCHANGED << inputs, tokenStore, credentials, loaded, acquired, youtube,
                  chunks, response, error >>

\* main.py line 58, input() returns: the line that was entered, or EOFError
\* at the end of the input; nothing catches it.
InputRead ==
  /\ pc = "input_wait"
  /\ \E eof \in BOOLEAN :
       IF eof THEN Raise("EOFError") ELSE Goto("fetch_token")
  /\ UNCHANGED << inputs, tokenStore, credentials, loaded, acquired, youtube,
                  calls, chunks, response, error, out >>

\* main.py lines 59-60: flow.fetch_token(code=code) exchanges the code and
\* stores the credentials in the flow, or raises.
FetchToken ==
  /\ pc = "fetch_token"
  /\ calls' = Called(calls, "fetch_token")
  /\ \E ok \in BOOLEAN :
       IF ok
         THEN /\ credentials' = Issued("manual")
              /\ acquired' = "manual"
              /\ Goto("open_wb")
         ELSE /\ Raise("AuthorizationError")
              /\ UNCHANGED << credentials, acquired >>
  /\ UNCHANGED << inputs, tokenStore, loaded, youtube, chunks, response,
                  error, out >>

\* main.py lines 64-67: browser flow.  Whatever run_local_server raises
\* leaves the function: there is no try around the call.
AuthorizeLocal ==
  /\ pc = "local"
  /\ IF secretFile # "ok"
       THEN /\ calls' = Called(calls, "from_client_secrets_file")
            /\ Raise("IOError")
            /\ UNCHANGED << credentials, acquired >>
       ELSE /\ calls' = Called(Called(calls, "from_client_secrets_file"),
                               "run_local_server")
            /\ \E ok \in BOOLEAN :
                 IF ok
                   THEN /\ credentials' = Issued("local")
                        /\ acquired' = "local"
                        /\ Goto("open_wb")
                   ELSE /\ Raise("AuthorizationError")
                        /\ UNCHANGED << credentials, acquired >>
  /\ UNCHANGED << inputs, tokenStore, loaded, youtube, chunks, response,
                  error, out >>

\* main.py line 70: open(token_file, "wb") creates or truncates the file.
OpenTokenFile ==
  /\ pc = "open_wb"
  /\ tokenStore' = [exists |-> TRUE, data |-> << >>]
  /\ calls' = Called(calls, "open_wb")
  /\ Goto("dump")
  /\ UNCHANGED << inputs, credentials, loaded, acquired, youtube, chunks,
                  response, error, out >>

\* main.py line 71: pickle.dump(credentials, f).
DumpToken ==
  /\ pc = "dump"
  /\ tokenStore' = [exists |-> TRUE, data |-> PickleDump(credentials)]
  /\ calls' = Called(calls, "pickle_dump")
  /\ Goto("build")
  /\ UNCHANGED << inputs, credentials, loaded, acquired, youtube, chunks,
                  response, error, out >>

\* main.py line 74 and lines 165-170: build the client, return it to main,
\* which passes it to upload_video.
Build ==
  /\ pc = "build"
  /\ youtube' = credentials
  /\ calls' = Called(Called(calls, "build"), "upload_video")
  /\ Goto("upload_load")
  /\ UNCHANGED << inputs, tokenStore, credentials, loaded, acquired, chunks,
                  response, error, out >>

\* ------------------------------------------------------- upload_video()
\* main.py lines 86-87: open and parse the metadata file.
LoadMetadataUnchecked ==
  /\ pc = "upload_load"
  /\ Goto("insert")
  /\ UNCHANGED << inputs, tokenStore, credentials, loaded, acquired, youtube,
                  calls, chunks, response, error, out >>

LoadMetadata ==
  /\ pc = "upload_load"
  /\ CASE metadataFile = "missing" -> Raise("FileNotFoundError")
       [] metadataFile = "badjson" -> Raise("JSONDecodeError")
       [] OTHER -> Goto("insert")
  /\ UNCHANGED << inputs, tokenStore, credentials, loaded, acquired, youtube,
                  calls, chunks, response, error, out >>

\* main.py lines 90-98: youtube.videos() is evaluated first, then the
\* arguments (MediaFileUpload opens the video file), then insert is called.
Insert ==
  /\ pc = "insert"
  /\ IF videoFile = "missing"
       THEN /\ calls' = Called(calls, "videos")
            /\ Raise("FileNotFoundError")
            /\ out' = out
       ELSE /\ calls' = Called(Called(calls, "videos"), "insert")
            /\ out' = Append(out, Line("uploading", 0))
            /\ Goto("next_chunk")
  /\ UNCHANGED << inputs, tokenStore, credentials, loaded, acquired, youtube,
                  chunks, response, error >>

\* A polling loop with the success banner inside the loop body.
NextChunkBannerInLoop ==
  /\ pc = "next_chunk"
  /\ \E r \in (IF Len(chunks) + 1 < MaxChunks THEN Progressing ELSE {})
                \cup Finishing :
       /\ chunks' = Append(chunks, r)
       /\ calls' = Called(calls, "next_chunk")
       /\ CASE r.raises = "ResumableUploadError" ->
                 /\ error' = r.text
                 /\ Goto("except")
                 /\ UNCHANGED << response, out >>
            [] r.raises \notin {"None", "ResumableUploadError"} ->
                 /\ Raise(r.raises)
                 /\ UNCHANGED << response, out, error >>
            [] OTHER ->
                 /\ response' = r.response
                 /\ out' = (IF StatusTruthy(r.status)
                              THEN Append(out, Line("progress", Percent(r.status)))
                              ELSE out)
                             \o << Line("success", 0), Line("response", 0) >>
                 /\ Goto(IF r.response = "None" THEN "next_chunk" ELSE "done")
                 /\ error' = error
  /\ UNCHANGED << inputs, tokenStore, credentials, loaded, acquired, youtube >>

\* A polling loop that calls next_chunk again after a ResumableUploadError.
NextChunkRetry ==
  /\ pc = "next_chunk"
  /\ \E r \in (IF Len(chunks) + 1 < MaxChunks THEN Progressing ELSE {})
                \cup Finishing :
       /\ chunks' = Append(chunks, r)
       /\ calls' = Called(calls, "next_chunk")
       /\ CASE r.raises = "ResumableUploadError" ->
                 /\ error' = r.text
                 /\ Goto(IF Len(chunks) + 1 < MaxChunks THEN "next_chunk"
                         ELSE "except")
                 /\ UNCHANGED << response, out >>
            [] r.raises \notin {"None", "ResumableUploadError"} ->
                 /\ Raise(r.raises)
                 /\ UNCHANGED << response, out, error >>
            [] OTHER ->
                 /\ response' = r.response
                 /\ out' = IF StatusTruthy(r.status)
                             THEN Append(out, Line("progress", Percent(r.status)))
                             ELSE out
                 /\ Goto(IF r.response = "None" THEN "next_chunk" ELSE "success")
                 /\ error' = error
  /\ UNCHANGED << inputs, tokenStore, credentials, loaded, acquired, youtube >>

\* A polling loop whose handler catches every exception.
NextChunkCatchAll ==
  /\ pc = "next_chunk"
  /\ \E r \in (IF Len(chunks) + 1 < MaxChunks THEN Progressing ELSE {})
                \cup Finishing :
       /\ chunks' = Append(chunks, r)
       /\ calls' = Called(calls, "next_chunk")
       /\ CASE r.raises # "None" ->
                 /\ error' = r.text
                 /\ Goto("except")
                 /\ UNCHANGED << response, out >>
            [] OTHER ->
                 /\ response' = r.response
                 /\ out' = IF StatusTruthy(r.status)
                             THEN Append(out, Line("progress", Percent(r.status)))
                             ELSE out
                 /\ Goto(IF r.response = "None" THEN "next_chunk" ELSE "success")
                 /\ error' = error
  /\ UNCHANGED << inputs, tokenStore, credentials, loaded, acquired, youtube >>

\* main.py lines 100-106 and 112: one iteration of the polling loop.
NextChunk ==
  /\ pc = "next_chunk"
  /\ \E r \in (IF Len(chunks) + 1 < MaxChunks THEN Progressing ELSE {})
                \cup Finishing :
       /\ chunks' = Append(chunks, r)
       /\ calls' = Called(calls, "next_chunk")
       /\ CASE r.raises = "ResumableUploadError" ->
                 /\ error' = r.text
                 /\ Goto("except")
                 /\ UNCHANGED << response, out >>
            [] r.raises \notin {"None", "ResumableUploadError"} ->
                 /\ Raise(r.raises)
                 /\ UNCHANGED << response, out, error >>
            [] OTHER ->
                 /\ response' = r.response
                 /\ out' = IF StatusTruthy(r.status)
                             THEN Append(out, Line("progress", Percent(r.status)))
                             ELSE out
                 /\ Goto(IF r.response = "None" THEN "next_chunk" ELSE "success")
                 /\ error' = error
  /\ UNCHANGED << inputs, tokenStore, credentials, loaded, acquired, youtube >>

\* main.py lines 109-110, then upload_video and main return.
Success ==
  /\ pc = "success"
  /\ out' = out \o << Line("success", 0), Line("response", 0) >>
  /\ Goto("done")
  /\ UNCHANGED << inputs, tokenStore, credentials, loaded, acquired, youtube,
                  calls, chunks, response, error >>

\* A handler that tests for quotaExceeded before youtubeSignupRequired.
ExceptQuotaFirst ==
  /\ pc = "except"
  /\ out' = out \o
       << Line("failed", 0),
          Line(IF "quotaExceeded" \in error THEN "quota"
               ELSE IF "youtubeSignupRequired" \in error THEN "create_channel"
               ELSE "troubleshooting", 0) >>
  /\ Exit(1)
  /\ UNCHANGED << inputs, tokenStore, credentials, loaded, acquired, youtube,
                  calls, chunks, response, error >>

\* A handler that prints the generic guidance for every error.
ExceptGenericOnly ==
  /\ pc = "except"
  /\ out' = out \o << Line("failed", 0), Line("troubleshooting", 0) >>
  /\ Exit(1)
  /\ UNCHANGED << inputs, tokenStore, credentials, loaded, acquired, youtube,
                  calls, chunks, response, error >>

\* main.py lines 112-131: classify the ResumableUploadError and exit.
Except ==
  /\ pc = "except"
  /\ out' = out \o
       << Line("failed", 0),
          Line(IF "youtubeSignupRequired" \in error THEN "create_channel"
               ELSE IF "quotaExceeded" \in error THEN "quota"
               ELSE "troubleshooting", 0) >>
  /\ Exit(1)
  /\ UNCHANGED << inputs, tokenStore, credentials, loaded, acquired, youtube,
                  calls, chunks, response, error >>

\* ------------------------- get_authenticated_service(), two invocations
\* main.py lines 35-39 in process p: read the shared token store as it is
\* at this moment.
RaceLoad(p) ==
  /\ race.pc[p] = "load"
  /\ IF race.store.exists
       THEN IF CanUnpickle(race.store.data)
              THEN race' = [race EXCEPT
                              !.credentials[p] = PickleLoad(race.store.data),
                              !.loaded[p] = PickleLoad(race.store.data),
                              !.pc[p] = "check"]
              ELSE race' = [race EXCEPT
                              !.raised[p] = UnpickleError(race.store.data),
                              !.pc[p] = "done"]
       ELSE race' = [race EXCEPT !.pc[p] = "check"]
  /\ UNCHANGED single

\* main.py lines 42-48 in process p.
RaceCheck(p) ==
  /\ race.pc[p] = "check"
  /\ race' = [race EXCEPT !.pc[p] =
                IF NeedsCredentials(race.credentials[p])
                  THEN IF CanRefresh(race.credentials[p]) THEN "refresh"
                       ELSE "authorize"
                  ELSE "build"]
  /\ UNCHANGED single

\* main.py line 45 in process p.
RaceRefresh(p) ==
  /\ race.pc[p] = "refresh"
  /\ \E ok \in BOOLEAN :
       IF ok
         THEN race' = [race EXCEPT
                         !.credentials[p] = OwnToken(p, Refreshed(@)),
                         !.pc[p] = "open_wb"]
         ELSE race' = [race EXCEPT !.raised[p] = "RefreshError",
                                   !.pc[p] = "done"]
  /\ UNCHANGED single

\* main.py lines 48-67 in process p.
RaceAuthorize(p) ==
  /\ race.pc[p] = "authorize"
  /\ \E ok \in BOOLEAN :
       IF ok
         THEN race' = [race EXCEPT
                         !.credentials[p] = OwnToken(p, Issued("local")),
                         !.pc[p] = "open_wb"]
         ELSE race' = [race EXCEPT !.raised[p] = "AuthorizationError",
                                   !.pc[p] = "done"]
  /\ UNCHANGED single

\* main.py line 70 in process p: open(token_file, "wb") truncates the
\* shared file; no lock is taken.
RaceOpen(p) ==
  /\ race.pc[p] = "open_wb"
  /\ race' = [race EXCEPT !.store = [exists |-> TRUE, data |-> << >>],
                          !.pc[p] = "dump"]
  /\ UNCHANGED single

\* A dump that leaves in place what another process has written since the
\* file was opened.
RaceDumpKeepsFirst(p) ==
  /\ race.pc[p] = "dump"
  /\ race' = [race EXCEPT
                !.store = IF race.store.data = << >>
                            THEN [exists |-> TRUE,
                                  data |-> PickleDump(race.credentials[p])]
                            ELSE @,
                !.wrote = Append(@, p),
                !.pc[p] = "build"]
  /\ UNCHANGED single

\* main.py line 71 in process p: pickle.dump and close write the pickle at
\* the start of the file.
RaceDump(p) ==
  /\ race.pc[p] = "dump"
  /\ race' = [race EXCEPT
                !.store = [exists |-> TRUE,
                           data |-> PickleDump(race.credentials[p])],
                !.wrote = Append(@, p),
                !.pc[p] = "build"]
  /\ UNCHANGED single

\* main.py line 74 in process p.
RaceBuild(p) ==
  /\ race.pc[p] = "build"
  /\ race' = [race EXCEPT !.pc[p] = "done"]
  /\ UNCHANGED single

InitRace ==
  /\ argv = [shape |-> "ok", device_auth |-> FALSE]
  /\ secretFile = "ok"
  /\ metadataFile = "ok"
  /\ videoFile = "ok"
  /\ stdin = "tty"
  /\ stdout = "tty"
  /\ tokenStore = NoFile
  /\ pc = "done"
  /\ credentials = None
  /\ loaded = None
  /\ acquired = "none"
  /\ youtube = None
  /\ calls = NoCalls
  /\ chunks = << >>
  /\ response = "None"
  /\ error = {}
  /\ out = << >>
  /\ raised = "None"
  /\ sys_exit = NoExit
  /\ race \in { RaceStart(s) : s \in TokenStores }

NextRace ==
  \/ \E p \in Procs : RaceLoad(p)
  \/ \E p \in Procs : RaceCheck(p)
  \/ \E p \in Procs : RaceRefresh(p)
  \/ \E p \in Procs : RaceAuthorize(p)
  \/ \E p \in Procs : RaceOpen(p)
  \/ \E p \in Procs : RaceDump(p)
  \/ \E p \in Procs : RaceBuild(p)

SpecRace == InitRace /\ [][NextRace]_vars

Next ==
  \/ ParseArgs
  \/ CheckSecret
  \/ LoadToken
  \/ CheckCredentials
  \/ Refresh
  \/ AuthorizeManual
  \/ InputPrompt
  \/ InputRead
  \/ FetchToken
  \/ AuthorizeLocal
  \/ OpenTokenFile
  \/ DumpToken
  \/ Build
  \/ LoadMetadata
  \/ Insert
  \/ NextChunk
  \/ Success
  \/ Except

Spec == Init /\ [][Next]_vars

\* ------------------------------------------------------------ properties
\* A credential was read from the token store.
Cached == ~IsNone(loaded)

\* The refresh token is the empty string or is absent.
EmptyOrAbsent(rt) == rt = "" \/ rt = "None"

\* get_authenticated_service has passed its decision at line 42.
Decided == pc \notin {"main", "check_secret", "load", "check"}

NoInteractive ==
  /\ calls.authorizing = 0
  /\ calls.from_client_secrets_file = 0
  /\ calls.run_local_server = 0
  /\ calls.input = 0
  /\ calls.fetch_token = 0
  /\ pc \notin {"manual", "input", "input_wait", "fetch_token", "local"}

\* C1: with a cached credential whose valid attribute is true, the run never
\* refreshes and never authorizes interactively, and the client it builds
\* is bound to the very credential that was loaded.
C1_ValidCachedUsedAsIs ==
  (Cached /\ loaded.valid) =>
    /\ calls.refresh = 0
    /\ pc # "refresh"
    /\ NoInteractive
    /\ credentials = loaded
    /\ (calls.build >= 1 => youtube = loaded)
    /\ (Decided => (pc = "build" \/ calls.build = 1))

C1_Witness ==
  /\ Cached /\ loaded.valid /\ loaded.refresh_token = "None"
  /\ calls.build = 1
  /\ youtube = loaded

\* C2: with a cached credential that is invalid, expired and carries a
\* non-empty refresh token, refresh is called exactly once and neither
\* interactive mode is entered, whatever the device-auth flag.
C2_RefreshOnceNoInteractive ==
  (Cached /\ ~loaded.valid /\ loaded.expired
      /\ ~EmptyOrAbsent(loaded.refresh_token)) =>
    /\ NoInteractive
    /\ calls.refresh = (IF pc \in {"check", "refresh"} THEN 0 ELSE 1)

C2_Witness ==
  /\ Cached /\ ~loaded.valid /\ loaded.expired
  /\ ~EmptyOrAbsent(loaded.refresh_token)
  /\ argv.device_auth
  /\ calls.refresh = 1
  /\ calls.build = 1

\* C3: with a cached credential that is expired and has an empty or absent
\* refresh token, interactive authorization is entered exactly once, in one
\* mode only, and refresh is never called.
C3_ExpiredUnrefreshableAuthorizes ==
  (Cached /\ loaded.expired /\ EmptyOrAbsent(loaded.refresh_token)) =>
    /\ calls.refresh = 0
    /\ pc # "refresh"
    /\ calls.authorizing = (IF Decided THEN 1 ELSE 0)
    /\ calls.run_local_server + calls.input <= 1
    /\ (Decided /\ pc \notin {"manual", "local"}
          => calls.from_client_secrets_file = 1)
    /\ calls.fetch_token <= calls.input

C3_Witness ==
  /\ Cached /\ loaded.expired
  /\ loaded.refresh_token = ""
  /\ calls.authorizing = 1
  /\ calls.run_local_server = 1
  /\ acquired = "local"

\* C4: once a refresh or an interactive authorization has succeeded and the
\* credential has been saved, the token store holds the pickle of the final
\* credential, and unpickling it gives that credential, valid.
C4_StoreHoldsNewCredential ==
  (acquired \in {"refresh", "local", "manual"} /\ pc \notin {"open_wb", "dump"}) =>
    /\ tokenStore.exists
    /\ calls.pickle_dump = 1
    /\ CanUnpickle(tokenStore.data)
    /\ PickleLoad(tokenStore.data) = credentials
    /\ PickleLoad(tokenStore.data).valid

C4_Witness ==
  /\ acquired = "refresh"
  /\ calls.pickle_dump = 1
  /\ PickleLoad(tokenStore.data) = credentials
  /\ PickleLoad(tokenStore.data) # loaded

\* C5: the client is only ever built from a valid credential (loaded valid,
\* refreshed or newly issued), so the credential behind videos().insert is
\* valid when the request is built.
C5_ValidCredentialAtInsert ==
  /\ (pc = "build" => (~IsNone(credentials) /\ credentials.valid))
  /\ (calls.build >= 1 =>
        /\ ~IsNone(youtube)
        /\ youtube.valid
        /\ youtube = credentials
        /\ acquired \in {"cached", "refresh", "local", "manual"}
        /\ (acquired = "cached" => (youtube = loaded /\ loaded.valid)))
  /\ (calls.insert >= 1 => (calls.build = 1 /\ youtube.valid))

C5_Witness ==
  /\ calls.insert = 1
  /\ acquired = "refresh"
  /\ youtube.valid

\* C6: when run_local_server raises, the failure is caught where the call
\* is made, remediation text is printed, the process exits with code 1, and
\* nothing is saved or built.
C6_LocalFailureExitsOne ==
  (calls.run_local_server = 1 /\ acquired = "none") =>
    /\ raised = "None"
    /\ sys_exit = 1
    /\ \E i \in 1..Len(out) : out[i].kind = "authorization_help"
    /\ calls.pickle_dump = 0
    /\ calls.build = 0

\* C7: when the refresh call fails, what it raised leaves the run as a fatal
\* error: no interactive mode is entered, the token store is untouched and
\* no client is built.
C7_RefreshFailureIsFatal ==
  (calls.refresh = 1 /\ acquired = "none") =>
    /\ pc = "done"
    /\ raised = "RefreshError"
    /\ sys_exit = NoExit
    /\ NoInteractive
    /\ calls.open_wb = 0
    /\ calls.pickle_dump = 0
    /\ tokenStore = [exists |-> TRUE, data |-> PickleDump(loaded)]
    /\ calls.build = 0
    /\ IsNone(youtube)

C7_Witness ==
  /\ calls.refresh = 1
  /\ acquired = "none"
  /\ raised = "RefreshError"

\* C8: a token store that exists but cannot be unpickled is treated as no
\* credential: the run does not fail on it and goes on to interactive
\* authorization.
C8_CorruptStoreIsNoCredential ==
  (tokenStore.exists /\ ~CanUnpickle(tokenStore.data)
      /\ calls.pickle_load = 1 /\ calls.open_wb = 0) =>
    /\ raised \notin UnpickleErrors
    /\ IsNone(credentials)
    /\ (pc # "check" => calls.authorizing = 1)

\* C9: no call is made on the client unless the metadata file was opened and
\* parsed: a missing file ends the run with FileNotFoundError, unparseable
\* JSON with a parse error, uncaught, with zero calls on the client.
ClientCalls == calls.videos + calls.insert + calls.next_chunk

C9_MetadataBeforeAnyCall ==
  /\ (ClientCalls > 0 => metadataFile = "ok")
  /\ (calls.upload_video = 1 /\ pc # "upload_load" /\ metadataFile # "ok") =>
       /\ pc = "done"
       /\ raised = (IF metadataFile = "missing" THEN "FileNotFoundError"
                    ELSE "JSONDecodeError")
       /\ sys_exit = NoExit
       /\ ClientCalls = 0
       /\ out = SelectSeq(out, LAMBDA l : l.kind \in {"visit_url", "auth_url",
                                                       "enter_code", "prompt"})

C9_Witness ==
  /\ calls.upload_video = 1
  /\ metadataFile = "missing"
  /\ raised = "FileNotFoundError"
  /\ ClientCalls = 0

\* The whole number p is the floor of the double x: p <= x < p + 1.
IsFloor(p, x) ==
  IF x.short
    THEN p * x.den < x.num /\ x.num <= (p + 1) * x.den
    ELSE p * x.den <= x.num /\ x.num < (p + 1) * x.den

ProgressLines == SelectSeq(out, LAMBDA l : l.kind = "progress")

\* C10: when the first k-1 next_chunk calls return (progress, None) and the
\* k-th returns (None, response), the loop has called next_chunk exactly k
\* times, has written one progress line per intermediate call, and the
\* percentage in each is the floor of progress * 100, the product of the
\* floating-point progress with 100 as the program computes it.
C10_PollingLoop ==
  /\ (pc = "next_chunk" =>
        /\ response = "None"
        /\ calls.next_chunk = Len(chunks)
        /\ Len(ProgressLines) = Len(chunks))
  /\ (response # "None" =>
        LET k == Len(chunks) IN
          /\ k >= 1
          /\ calls.next_chunk = k
          /\ chunks[k].response = response
          /\ \A i \in 1..(k - 1) : chunks[i] \in Progressing
          /\ Len(ProgressLines) = k - 1
          /\ \A i \in 1..(k - 1) :
               LET p == ProgressLines[i].percent
                   n == chunks[i].status
               IN  IsFloor(p, ProgressTimes100(n)))

C10_Witness ==
  /\ pc = "done"
  /\ response = "video"
  /\ Len(chunks) = 3
  /\ chunks[1].status = 58
  /\ chunks[2].status = 29
  /\ ProgressLines = << Line("progress", 28), Line("progress", 14) >>


\* The last next_chunk call raised a ResumableUploadError.
UploadFailed ==
  /\ Len(chunks) >= 1
  /\ chunks[Len(chunks)].raises = "ResumableUploadError"

\* The guidance the text of a ResumableUploadError calls for.
Guidance(text) ==
  IF "youtubeSignupRequired" \in text THEN "create_channel"
  ELSE IF "quotaExceeded" \in text THEN "quota"
  ELSE "troubleshooting"

\* C11: after the polling loop raises a ResumableUploadError, the failure
\* banner is printed, then the guidance its text calls for (channel creation
\* for youtubeSignupRequired, else quota for quotaExceeded, else generic), and
\* the process exits with code 1.
C11_UploadErrorClassified ==
  (UploadFailed /\ pc = "done") =>
    /\ sys_exit = 1
    /\ raised = "None"
    /\ Len(out) >= 2
    /\ out[Len(out) - 1] = Line("failed", 0)
    /\ out[Len(out)] = Line(Guidance(chunks[Len(chunks)].text), 0)
    /\ Cardinality({ i \in 1..Len(out) :
         out[i].kind \in {"create_channel", "quota", "troubleshooting"} }) = 1

C11_Witness ==
  /\ UploadFailed
  /\ pc = "done"
  /\ chunks[Len(chunks)].text = {"quotaExceeded"}
  /\ out[Len(out)] = Line("quota", 0)
  /\ sys_exit = 1


\* C12: with --help, or with a required argument left out, the run ends in
\* parse_args (exit code 0 for --help, non-zero otherwise) and neither
\* get_authenticated_service nor upload_video is ever called.
C12_ArgparseExitsBeforeAuth ==
  (argv.shape # "ok") =>
    /\ calls = NoCalls
    /\ pc \in {"main", "done"}
    /\ (pc = "done" =>
          /\ raised = "None"
          /\ sys_exit # NoExit
          /\ (ExitStatus = 0 <=> argv.shape = "help"))

C12_Witness ==
  /\ argv.shape = "no_client_secret"
  /\ pc = "done"
  /\ ExitStatus = 2
  /\ calls = NoCalls

\* C13: when --client-secret is not given or names a file that does not
\* exist, main fails with a non-zero exit status and get_authenticated_service
\* and upload_video are never called.
C13_SecretCheckedBeforeAuth ==
  (argv.shape = "no_client_secret"
      \/ (argv.shape = "ok" /\ secretFile = "missing")) =>
    /\ calls = NoCalls
    /\ pc \in {"main", "check_secret", "done"}
    /\ (pc = "done" =>
          /\ ExitStatus # 0
          /\ (argv.shape = "ok" => raised = "FileNotFoundError"))

C13_Witness ==
  /\ argv.shape = "ok"
  /\ secretFile = "missing"
  /\ pc = "done"
  /\ raised = "FileNotFoundError"
  /\ calls = NoCalls


\* The run is inside get_authenticated_service.
InAuth ==
  pc \in {"load", "check", "refresh", "manual", "input", "input_wait",
          "fetch_token", "local", "open_wb", "dump", "build"}

\* get_authenticated_service was called and is over without a client.
AuthFailed ==
  /\ calls.get_authenticated_service = 1
  /\ ~InAuth
  /\ calls.build = 0

\* The client handle is usable: it is bound to a valid credential.
Usable == ~IsNone(youtube) /\ youtube.valid

\* What get_authenticated_service raises that counts as an I/O error (the
\* client secret or the token store cannot be read) or as an authorization
\* error (the interactive flow is refused or cannot complete: input() raises
\* EOFError at the end of the input and RuntimeError when standard input is
\* closed).
IOOrAuthorizationErrors ==
  {"IOError", "AuthorizationError", "RuntimeError"} \cup UnpickleErrors

\* C14 as stated: get_authenticated_service fails with an I/O error whenever
\* the client secret file is unreadable, and whenever it does not fail with
\* an I/O error (an undecodable token store counted as one) or an
\* authorization error it returns a usable client.
C14_Original ==
  (calls.get_authenticated_service = 1 /\ ~InAuth) =>
    /\ (secretFile = "unreadable"
          => (AuthFailed /\ raised \in {"IOError"} \cup UnpickleErrors))
    /\ (AuthFailed => raised \in IOOrAuthorizationErrors)
    /\ (calls.build = 1 => Usable)

\* C14 as amended: get_authenticated_service fails with an I/O error
\* whenever the client secret file is unreadable and it has to authorize
\* interactively; whenever it does not fail with an I/O error, an
\* authorization error or a refresh error it returns a usable client.
C14_FailsOrReturnsUsableClient ==
  (calls.get_authenticated_service = 1 /\ ~InAuth) =>
    /\ (secretFile = "unreadable" /\ calls.authorizing = 1
          => (AuthFailed /\ raised = "IOError"))
    /\ (AuthFailed => raised \in IOOrAuthorizationErrors \cup {"RefreshError"})
    /\ (raised = "EOFError" =>
          (calls.input = 1 \/ (calls.pickle_load = 1 /\ IsNone(loaded))))
    /\ (raised = "RuntimeError" => (calls.input = 1 /\ stdin = "closed"))
    /\ (calls.build = 1 => Usable)

C14_Witness ==
  /\ secretFile = "unreadable"
  /\ calls.authorizing = 1
  /\ AuthFailed
  /\ raised = "IOError"


\* Some line of the given kinds has been printed.
Printed(kinds) == \E i \in 1..Len(out) : out[i].kind \in kinds

\* C15: a ResumableUploadError ends the run: once next_chunk has raised it,
\* next_chunk is never called again, the success banner is never printed,
\* and the only step left is the handler's, which exits.
C15_UploadErrorIsTerminal ==
  [][ UploadFailed =>
        /\ calls'.next_chunk = calls.next_chunk
        /\ chunks' = chunks
        /\ ~Printed({"success", "response"})'
        /\ pc = "except"
        /\ pc' = "done"
        /\ sys_exit' = 1 ]_vars

C15_Witness ==
  /\ UploadFailed
  /\ pc = "done"
  /\ Len(chunks) = 2
  /\ calls.next_chunk = 2
  /\ ~Printed({"success", "response"})

\* The last next_chunk call raised something that is not a
\* ResumableUploadError.
OtherErrorRaised ==
  /\ Len(chunks) >= 1
  /\ chunks[Len(chunks)].raises \notin {"None", "ResumableUploadError"}

\* C16: an exception of the polling loop that is not a ResumableUploadError
\* leaves upload_video as it is: no failure banner, no guidance, no
\* sys.exit(1).
C16_OtherErrorsPropagate ==
  OtherErrorRaised =>
    /\ pc = "done"
    /\ raised = chunks[Len(chunks)].raises
    /\ sys_exit = NoExit
    /\ ~Printed({"failed", "create_channel", "quota", "troubleshooting",
                 "success", "response"})

C16_Witness ==
  /\ OtherErrorRaised
  /\ raised = "HttpError"
  /\ Len(chunks) = 2
  /\ Printed({"progress"})


\* C17: in every run the token store is read at most once and written at
\* most once; every step that changes it is the save that follows a
\* successful refresh or interactive authorization, so it is unchanged when
\* the cached credential is valid or when refresh or authorization fails.
C17_StoreReadOnceWrittenOnce ==
  /\ [](/\ calls.pickle_load <= 1
        /\ calls.open_wb <= 1
        /\ calls.pickle_dump <= calls.open_wb
        /\ (calls.open_wb = 1 => acquired \in {"refresh", "local", "manual"}))
  /\ [][ tokenStore' # tokenStore =>
           /\ acquired \in {"refresh", "local", "manual"}
           /\ pc \in {"open_wb", "dump"}
           /\ calls'.open_wb + calls'.pickle_dump
                = calls.open_wb + calls.pickle_dump + 1 ]_vars

C17_Witness ==
  /\ calls.pickle_load = 1
  /\ calls.pickle_dump = 1
  /\ acquired = "local"
  /\ pc = "done"


\* C19: with all arguments given and an existing client secret file, main
\* calls get_authenticated_service exactly once, and calls upload_video at
\* most once, only after get_authenticated_service has returned a client and
\* with that client; without a client upload_video is never called.
C19_AuthThenUpload ==
  /\ [](/\ calls.get_authenticated_service <= 1
        /\ calls.upload_video <= 1
        /\ (calls.upload_video = 1 =>
              /\ calls.get_authenticated_service = 1
              /\ calls.build = 1
              /\ ~InAuth
              /\ ~IsNone(youtube)
              /\ youtube = credentials)
        /\ (argv.shape = "ok" /\ secretFile # "missing"
              /\ pc \notin {"main", "check_secret"}
              => calls.get_authenticated_service = 1)
        /\ (AuthFailed => (calls.upload_video = 0 /\ pc = "done")))
  /\ [][ calls'.upload_video # calls.upload_video =>
           /\ pc = "build"
           /\ calls'.build = 1
           /\ youtube' = credentials ]_vars

C19_Witness ==
  /\ argv.shape = "ok"
  /\ secretFile = "ok"
  /\ calls.get_authenticated_service = 1
  /\ calls.upload_video = 1
  /\ acquired = "manual"
  /\ pc = "done"
  /\ ExitStatus = 0

\* C20: interactive authorization runs in the one mode the flag selects:
\* the manual flow (URL printed, code read, code exchanged) only when
\* use_device_flow is true, run_local_server only when it is false; the
\* manual flow never calls run_local_server and the browser flow never
\* reads standard input.
C20_ModeSelectedByFlag ==
  /\ [](/\ calls.authorizing <= 1
        /\ (pc = "manual" => (argv.device_auth /\ calls.authorizing = 1))
        /\ (pc = "input" =>
              /\ argv.device_auth
              /\ Printed({"auth_url"})
              /\ calls.input = 0)
        /\ (pc \in {"input_wait", "fetch_token"} =>
              /\ argv.device_auth
              /\ calls.input = 1
              /\ calls.fetch_token = 0)
        /\ (pc = "local" => (~argv.device_auth /\ calls.authorizing = 1))
        /\ (argv.device_auth =>
              /\ calls.run_local_server = 0
              /\ calls.fetch_token <= calls.input
              /\ (acquired = "manual" => calls.fetch_token = 1)
              /\ acquired # "local")
        /\ (~argv.device_auth =>
              /\ calls.input = 0
              /\ calls.fetch_token = 0
              /\ ~Printed({"visit_url", "auth_url", "enter_code", "prompt"})
              /\ acquired # "manual")
        /\ calls.run_local_server + calls.input
             <= calls.from_client_secrets_file
        /\ calls.from_client_secrets_file <= calls.authorizing
        /\ (calls.authorizing = 1 /\ secretFile = "ok"
              /\ pc \notin {"manual", "input", "local"}
              => calls.run_local_server + calls.input = 1))
  /\ [][ calls'.authorizing # calls.authorizing =>
           pc' = (IF argv.device_auth THEN "manual" ELSE "local") ]_vars

C20_Witness ==
  /\ argv.device_auth
  /\ calls.authorizing = 1
  /\ calls.input = 1
  /\ calls.fetch_token = 1
  /\ calls.run_local_server = 0
  /\ Printed({"auth_url"})
  /\ acquired = "manual"


\* C18: two invocations sharing one token store take no lock.  Whenever no
\* write is in progress, the store holds the credential of the process that
\* wrote last; and a process fails to unpickle a store that was not corrupt
\* to begin with only because the other process had truncated it.
C18_LastWriterWins ==
  /\ (race.wrote # << >> /\ \A p \in Procs : race.pc[p] # "dump") =>
       LET last == race.wrote[Len(race.wrote)] IN
         /\ race.store.exists
         /\ CanUnpickle(race.store.data)
         /\ PickleLoad(race.store.data) = race.credentials[last]
  /\ \A p \in Procs :
       (/\ race.raised[p] \in UnpickleErrors
        /\ (race.store0.exists => CanUnpickle(race.store0.data))) =>
         \E q \in Procs \ {p} : race.pc[q] \in {"dump", "build", "done"}
                                  /\ race.raised[q] = "None"

\* Both processes found no token store, both authorized, both wrote, and
\* the store holds the credential of the second writer, not of the first.
C18_Witness ==
  /\ race.store0 = NoFile
  /\ \A p \in Procs : IsNone(race.loaded[p]) /\ race.pc[p] = "done"
  /\ race.wrote = << 1, 2 >>
  /\ PickleLoad(race.store.data) = race.credentials[2]
  /\ PickleLoad(race.store.data) # race.credentials[1]

\* One process read the store between the other's truncation and dump.
C18_TruncatedRead ==
  /\ CanUnpickle(race.store0.data)
  /\ race.raised[2] = "EOFError"
  /\ race.pc[1] = "dump"

C18_NoTruncatedRead == ~C18_TruncatedRead


\* get_authenticated_service has read its credential state (absent or
\* cached) and has taken its decision at lines 42-48.
PathTaken ==
  /\ calls.get_authenticated_service = 1
  /\ pc \notin {"load", "check"}
  /\ ~(calls.pickle_load = 1 /\ IsNone(loaded))

UsedAsIs == acquired = "cached"

RefreshPath == pc = "refresh" \/ calls.refresh >= 1

InteractivePath == calls.authorizing >= 1

\* C21: whatever the credential state (absent; valid; invalid with any
\* expired flag and refresh token), the run takes exactly one of using the
\* credential as is, refreshing it, or authorizing interactively, and never
\* both refreshes and authorizes; an invalid cached credential that is not
\* marked expired is sent to interactive authorization even when it has a
\* refresh token.
C21_ExactlyOnePath ==
  /\ calls.refresh + calls.authorizing <= 1
  /\ ~(RefreshPath /\ InteractivePath)
  /\ ~(UsedAsIs /\ (RefreshPath \/ InteractivePath))
  /\ (PathTaken => (UsedAsIs \/ RefreshPath \/ InteractivePath))
  /\ (PathTaken /\ ~Cached => InteractivePath)
  /\ (PathTaken /\ Cached /\ loaded.valid => UsedAsIs)
  /\ (PathTaken /\ Cached /\ ~loaded.valid /\ ~loaded.expired
        => InteractivePath)
  /\ (PathTaken /\ Cached /\ ~loaded.valid /\ loaded.expired =>
        IF EmptyOrAbsent(loaded.refresh_token) THEN InteractivePath
        ELSE RefreshPath)

C21_Witness ==
  /\ Cached
  /\ ~loaded.valid /\ ~loaded.expired
  /\ loaded.refresh_token = "rt"
  /\ calls.authorizing = 1
  /\ calls.refresh = 0
  /\ acquired = "manual"


\* Number of lines of the given kind printed so far.
Count(kind) == Cardinality({ i \in 1..Len(out) : out[i].kind = kind })

\* C22: the success banner and the response are printed exactly once, and
\* only after next_chunk has returned a final result; the loop stops at the
\* first such result (no next_chunk call and no progress line after it);
\* the success banner and the failure banner never appear in the same run.
C22_SuccessOnceAfterFinalResult ==
  /\ [](/\ Count("success") <= 1
        /\ Count("response") = Count("success")
        /\ (Printed({"success"}) =>
              /\ response # "None"
              /\ chunks[Len(chunks)].response = response
              /\ \A i \in 1..(Len(chunks) - 1) : chunks[i].response = "None"
              /\ out[Len(out) - 1] = Line("success", 0)
              /\ out[Len(out)] = Line("response", 0))
        /\ ~(Printed({"success"}) /\ Printed({"failed"}))
        /\ (response # "None" /\ pc = "done" => Count("success") = 1))
  /\ [][ response # "None" =>
           /\ pc = "success"
           /\ chunks' = chunks
           /\ calls'.next_chunk = calls.next_chunk
           /\ Count("progress")' = Count("progress")
           /\ Count("success")' = 1 ]_vars

C22_Witness ==
  /\ pc = "done"
  /\ response = "video"
  /\ Len(chunks) = 2
  /\ Count("progress") = 1
  /\ Count("success") = 1
  /\ ~Printed({"failed"})

\* C23: the handler prints exactly one of the three guidance blocks: an
\* error text with both youtubeSignupRequired and quotaExceeded gets the
\* channel guidance and not the quota guidance, and the generic guidance is
\* printed exactly when neither word is in the text.
C23_FirstMatchOnly ==
  (UploadFailed /\ pc = "done") =>
    LET text == chunks[Len(chunks)].text IN
      /\ Count("create_channel") + Count("quota") + Count("troubleshooting") = 1
      /\ ("youtubeSignupRequired" \in text /\ "quotaExceeded" \in text =>
            (Count("create_channel") = 1 /\ Count("quota") = 0))
      /\ (Count("troubleshooting") = 1 <=>
            ("youtubeSignupRequired" \notin text /\ "quotaExceeded" \notin text))

C23_Witness ==
  /\ UploadFailed
  /\ pc = "done"
  /\ chunks[Len(chunks)].text = {"youtubeSignupRequired", "quotaExceeded"}
  /\ Count("create_channel") = 1
  /\ Count("quota") = 0
  /\ Count("troubleshooting") = 0

====
